---------------------------- MODULE Spec2Model ----------------------------
(***************************************************************************)
(* Model of aiosqlation.py: ConnectionPool (acquire_connection,            *)
(* create_connection, return_connection, close) on top of asyncio.Queue,   *)
(* and Transaction (__aenter__ / __aexit__).                               *)
(*                                                                         *)
(* Scheduling is asyncio's: one task runs at a time and gives up control   *)
(* only at an await that really suspends.  Every action below is the code  *)
(* a task runs between two suspension points.                              *)
(*                                                                         *)
(* asyncio.Queue (CPython Lib/asyncio/queues.py) as the pool uses it:      *)
(*   get():        while self.empty():                                     *)
(*                     getter = loop.create_future()                       *)
(*                     self._getters.append(getter); await getter          *)
(*                 return self.get_nowait()          # popleft             *)
(*   put_nowait(): if self.full(): raise QueueFull                         *)
(*                 self._queue.append(item)                                *)
(*                 self._wakeup_next(self._getters)  # first getter only   *)
(* A woken getter does not own the item: it re-tests empty() when it       *)
(* resumes and goes to the END of _getters if the item is gone.            *)
(*                                                                         *)
(* Names the source leaves unbound are read as what they evidently denote: *)
(* PoolClosed, OperationalError, time, async_sleep, and in Transaction     *)
(* _db.aquire_connection / _db.release_connection are the pool's           *)
(* acquire_connection / return_connection; transaction_type in             *)
(* ConnectionWaiter.__aenter__ is self.transaction_type.                   *)
(***************************************************************************)
EXTENDS Integers, Sequences, FiniteSets, TLC

\* ------------------------------------------------------------------ bounds
NumTasks == 3
MaxSize == 1
MaxTimeout == 1
NumUsers == 1

Tasks == 1..NumTasks
Handles == 1..MaxSize
\* ConnectionPool.__init__(maxsize=...): asyncio.Queue(maxsize=maxsize)
maxsize == MaxSize
\* Transaction._timeout is None
NoTimeout == -1
\* timeouts count backoff intervals: async_sleep(.5) is one unit of time
Timeouts == {NoTimeout} \cup (0..MaxTimeout)

VARIABLES
    size,       \* ConnectionPool._size
    closed,     \* ConnectionPool._closed
    queue,      \* ConnectionPool._queue._queue : idle handles, FIFO
    getters,    \* ConnectionPool._queue._getters : suspended get() calls
    pc,         \* where each task is suspended in a pool call ("idle": nowhere)
    held,       \* handles each task has checked out
    hstate,     \* each handle: "absent", "open", "closed", "leaked"
    gready,     \* close()'s get() tasks that are ready to run (new or woken)
    done,       \* as_completed's queue of finished get() results
    todo,       \* iterations the for loop of close() has still to start
    closingH,   \* handle whose close() the closing task awaits (0: none)
    tx,         \* each task's Transaction object (st = "none": no transaction)
    waitOrder,  \* tasks suspended in _queue.get(), in the order they began to wait
    last        \* the step just taken: operation, task, outcome, handle

poolVars == <<size, closed, queue, getters, pc, held, hstate, gready, done,
              todo, closingH>>
vars == <<size, closed, queue, getters, pc, held, hstate, gready, done,
          todo, closingH, tx, waitOrder, last>>

\* what a step did. own, rel and fin describe a transaction that ended:
\* whether it owned its checkout, how often it returned the handle to the
\* pool, and the statement its exit issued.
Event(op, t, res, h) ==
    [op |-> op, task |-> t, res |-> res, h |-> h,
     own |-> FALSE, rel |-> 0, fin |-> "none"]

\* ConnectionPool.available
available == Len(queue)

\* ------------------------------------------------------ asyncio.Queue
empty(q) == Len(q) = 0
full(q) == IF maxsize <= 0 THEN FALSE ELSE Len(q) >= maxsize

TaskW(t) == <<"task", t>>
\* close()'s get() tasks are anonymous: as_completed keeps them in a set
CloseW == <<"close", 0>>

\* _wakeup_next: the first getter's future gets its result; a cancelled
\* getter is skipped, which is the same as its leaving the list when it is
\* cancelled (Cancel), so the first one is always still pending.
WakeupNext(w) == IF Len(w) = 0 THEN w ELSE Tail(w)
Woken(w) == IF Len(w) = 0 THEN {} ELSE {Head(w)}

\* put_nowait(h) on a queue that is not full
PutNowait(h) ==
    /\ queue' = Append(queue, h)
    /\ getters' = WakeupNext(getters)
    /\ pc' = [u \in Tasks |->
                IF TaskW(u) \in Woken(getters) THEN "woken" ELSE pc[u]]
    /\ gready' = IF CloseW \in Woken(getters) THEN gready + 1 ELSE gready

\* the next handle create_connection opens
NewHandle == 1 + Cardinality({h \in Handles : hstate[h] # "absent"})

\* ---------------------------------------------------- Transaction state
\* st: where the transaction is; conn: _connection (0: None); rel:
\* _release_connection; to: _timeout; el: time() - start_time as last
\* observed; exc: the exception __aexit__ was called with
TxNone == [st |-> "none", conn |-> 0, rel |-> FALSE, to |-> NoTimeout,
           el |-> 0, exc |-> FALSE]

\* the task is in no transaction scope and calls the pool directly
Free(t) == tx[t].st = "none"

Init ==
    /\ size = 0
    /\ closed = FALSE
    /\ queue = <<>>
    /\ getters = <<>>
    /\ pc = [t \in Tasks |-> "idle"]
    /\ held = [t \in Tasks |-> {}]
    /\ hstate = [h \in Handles |-> "absent"]
    /\ gready = 0
    /\ done = <<>>
    /\ todo = 0
    /\ closingH = 0
    /\ tx = [t \in Tasks |-> TxNone]
    /\ waitOrder = <<>>
    /\ last = Event("init", 0, "ok", 0)

\* ------------------------------------------------- acquire_connection
\* if self._closed: raise PoolClosed()
AcquireRefusedDraining == closed /\ size = 0
AcquireRefused == closed

\* if self._queue.empty() and self._size < self._queue.maxsize
MayCreateNoLimit == empty(queue)
MayCreate == empty(queue) /\ size < maxsize

\* how acquire_connection ends its first run: PoolClosed raised, suspended
\* (in create_connection or in _queue.get()), or a handle returned at once
AcquireRes ==
    IF AcquireRefused THEN "PoolClosed"
    ELSE IF MayCreate \/ empty(queue) THEN "suspend"
    ELSE "handle"

\* acquire_connection up to its first suspension (or its return).
Acquire(t) ==
    /\ pc[t] = "idle"
    /\ IF AcquireRefused
       THEN UNCHANGED <<size, queue, getters, pc, held, waitOrder>>
       ELSE IF MayCreate
       THEN \* create_connection: _size is raised before the first await
            /\ size' = size + 1
            /\ pc' = [pc EXCEPT ![t] = "creating"]
            /\ UNCHANGED <<queue, getters, held, waitOrder>>
       ELSE IF empty(queue)
       THEN \* _queue.get(): suspend on a new getter future
            /\ getters' = Append(getters, TaskW(t))
            /\ pc' = [pc EXCEPT ![t] = "waiting"]
            /\ waitOrder' = Append(waitOrder, t)
            /\ UNCHANGED <<size, queue, held>>
       ELSE \* _queue.get() on a non-empty queue returns without suspending
            /\ queue' = Tail(queue)
            /\ held' = [held EXCEPT ![t] = @ \cup {Head(queue)}]
            /\ UNCHANGED <<size, getters, pc, waitOrder>>
    /\ UNCHANGED <<closed, hstate, gready, done, todo, closingH>>

\* a direct call of acquire_connection
AcquireCall(t) ==
    /\ Free(t)
    /\ Acquire(t)
    /\ last' = Event("acquire", t, AcquireRes,
                     IF AcquireRes = "handle" THEN Head(queue) ELSE 0)
    /\ UNCHANGED tx

\* ------------------------------------------- Transaction.__aenter__ (1)
\* time() >= start_time + self._timeout, with a timeout configured
TimedOutLate(x) == x.to # NoTimeout /\ x.el > x.to
TimedOut(x) == x.to # NoTimeout /\ x.el >= x.to

\* a transaction ended: control left __aenter__ by an exception or __aexit__
TxLeave(t, res, fin, nrel) ==
    /\ tx' = [tx EXCEPT ![t] = TxNone]
    /\ last' = [op |-> "txn", task |-> t, res |-> res, h |-> tx[t].conn,
                own |-> tx[t].rel, rel |-> nrel, fin |-> fin]

\* self._connection = await ...; self._release_connection = True; then
\* BEGIN is sent and its answer awaited
\* (in a ConnectionWaiter: self.connection = await ...; the scope is entered)
TxGot(t, h) ==
    tx' = [tx EXCEPT ![t] =
             [@ EXCEPT !.st = IF @ = "connecting" THEN "scope" ELSE "begin",
                       !.conn = h, !.rel = TRUE]]

\* control left a ConnectionWaiter: by an exception of __aenter__ or by
\* __aexit__
WaiterLeave(t, res, nrel) ==
    /\ tx' = [tx EXCEPT ![t] = TxNone]
    /\ last' = [op |-> "scope", task |-> t, res |-> res, h |-> tx[t].conn,
                own |-> tx[t].rel, rel |-> nrel, fin |-> "none"]

\* create_connection: the connection opened and both PRAGMAs ran.
CreateDone(t) ==
    /\ pc[t] = "creating"
    /\ hstate' = [hstate EXCEPT ![NewHandle] = "open"]
    /\ held' = [held EXCEPT ![t] = @ \cup {NewHandle}]
    /\ pc' = [pc EXCEPT ![t] = "idle"]
    /\ last' = Event("create", t, "handle", NewHandle)
    /\ IF Free(t) THEN UNCHANGED tx ELSE TxGot(t, NewHandle)
    /\ UNCHANGED <<size, closed, queue, getters, gready, done, todo,
                   closingH, waitOrder>>

\* create_connection: opening or a PRAGMA raised (locked: the error is
\* OperationalError('database is locked')); _size stays raised.  Inside
\* __aenter__ the locked error is caught like a failed BEGIN.
CreateFail(t, locked) ==
    /\ pc[t] = "creating"
    /\ pc' = [pc EXCEPT ![t] = "idle"]
    /\ IF Free(t)
       THEN /\ last' = Event("create", t, "error", 0)
            /\ UNCHANGED tx
       ELSE IF tx[t].st = "connecting"
       THEN WaiterLeave(t, "error", 0)
       ELSE IF ~locked
       THEN TxLeave(t, "error", "none", 0)
       ELSE IF TimedOut(tx[t])
       THEN TxLeave(t, "Timeout", "none", 0)
       ELSE /\ tx' = [tx EXCEPT ![t] = [@ EXCEPT !.st = "sleep"]]
            /\ last' = Event("create", t, "locked", 0)
    /\ UNCHANGED <<size, closed, queue, getters, held, hstate, gready, done,
                   todo, closingH, waitOrder>>

\* a task suspended in _queue.get() runs again after its future was set
AcquireResume(t) ==
    /\ pc[t] = "woken"
    /\ IF empty(queue)
       THEN /\ getters' = Append(getters, TaskW(t))
            /\ pc' = [pc EXCEPT ![t] = "waiting"]
            /\ last' = Event("resume", t, "suspend", 0)
            /\ UNCHANGED <<queue, held, waitOrder, tx>>
       ELSE /\ queue' = Tail(queue)
            /\ held' = [held EXCEPT ![t] = @ \cup {Head(queue)}]
            /\ pc' = [pc EXCEPT ![t] = "idle"]
            /\ waitOrder' = SelectSeq(waitOrder, LAMBDA u : u # t)
            /\ last' = Event("resume", t, "handle", Head(queue))
            /\ IF Free(t) THEN UNCHANGED tx ELSE TxGot(t, Head(queue))
            /\ UNCHANGED getters
    /\ UNCHANGED <<size, closed, hstate, gready, done, todo, closingH>>

\* --------------------------------------------------- return_connection
\* return_connection does not touch _size
SizeAfterReturnDecr == size - 1
SizeAfterReturn == size

ReturnKeepsHeld(t, h) ==
    /\ size' = SizeAfterReturn
    /\ IF full(queue)
       THEN UNCHANGED <<queue, getters, pc, gready, held>>
       ELSE /\ PutNowait(h)
            /\ held' = held
    /\ UNCHANGED <<closed, hstate, done, todo, closingH, waitOrder>>

\* self._queue.put_nowait(connection); the holder gives the handle up.
\* put_nowait raises QueueFull on a full queue and changes nothing.
Return(t, h) ==
    /\ size' = SizeAfterReturn
    /\ IF full(queue)
       THEN UNCHANGED <<queue, getters, pc, gready, held>>
       ELSE /\ PutNowait(h)
            /\ held' = [held EXCEPT ![t] = @ \ {h}]
    /\ UNCHANGED <<closed, hstate, done, todo, closingH, waitOrder>>

\* a direct call of return_connection
ReturnConnection(t, h) ==
    /\ Free(t)
    /\ pc[t] = "idle"
    /\ h \in held[t]
    /\ Return(t, h)
    /\ last' = Event("release", t, IF full(queue) THEN "QueueFull" ELSE "ok", h)
    /\ UNCHANGED tx

\* ---------------------------------------------------------------- close
\* if self._closed: return
CloseRefusedNever == FALSE
CloseRefused == closed

\* close() up to its first suspension (or its return).
CloseCall(t) ==
    /\ Free(t)
    /\ pc[t] = "idle"
    /\ IF CloseRefused
       THEN /\ last' = Event("close", t, "return", 0)
            /\ UNCHANGED <<size, closed, pc, gready, todo>>
       ELSE /\ closed' = TRUE
            \* [ self._queue.get() for _ in range(self._size) ], as_completed
            /\ gready' = size
            /\ todo' = size
            /\ IF size = 0
               THEN /\ size' = 0
                    /\ last' = Event("close", t, "return", 0)
                    /\ UNCHANGED pc
               ELSE /\ pc' = [pc EXCEPT ![t] = "closing"]
                    /\ last' = Event("close", t, "suspend", 0)
                    /\ UNCHANGED size
    /\ UNCHANGED <<queue, getters, held, hstate, done, closingH, waitOrder, tx>>

GetterRunPeek ==
    /\ gready > 0
    /\ IF empty(queue)
       THEN /\ getters' = Append(getters, CloseW)
            /\ gready' = gready - 1
            /\ last' = Event("getter", 0, "suspend", 0)
            /\ UNCHANGED <<queue, done>>
       ELSE /\ queue' = queue
            /\ done' = Append(done, Head(queue))
            /\ gready' = gready - 1
            /\ last' = Event("getter", 0, "handle", Head(queue))
            /\ UNCHANGED getters
    /\ UNCHANGED <<size, closed, pc, held, hstate, todo, closingH, waitOrder, tx>>

\* one of close()'s _queue.get() tasks runs: first run, or after its
\* getter future was set
GetterRun ==
    /\ gready > 0
    /\ IF empty(queue)
       THEN /\ getters' = Append(getters, CloseW)
            /\ gready' = gready - 1
            /\ last' = Event("getter", 0, "suspend", 0)
            /\ UNCHANGED <<queue, done>>
       ELSE /\ queue' = Tail(queue)
            /\ done' = Append(done, Head(queue))
            /\ gready' = gready - 1
            /\ last' = Event("getter", 0, "handle", Head(queue))
            /\ UNCHANGED getters
    /\ UNCHANGED <<size, closed, pc, held, hstate, todo, closingH, waitOrder, tx>>

\* for connection in as_completed(...): await (await connection).close()
\* the next finished get() is taken and the handle's close() is awaited
CloseNext(t) ==
    /\ pc[t] = "closing"
    /\ todo > 0
    /\ Len(done) > 0
    /\ closingH' = Head(done)
    /\ done' = Tail(done)
    /\ todo' = todo - 1
    /\ pc' = [pc EXCEPT ![t] = "closingHandle"]
    /\ last' = Event("closeNext", t, "suspend", Head(done))
    /\ UNCHANGED <<size, closed, queue, getters, held, hstate, gready,
                   waitOrder, tx>>

\* the handle's close() finished; after the last one: self._size = 0
CloseHandleDone(t) ==
    /\ pc[t] = "closingHandle"
    /\ hstate' = [hstate EXCEPT ![closingH] = "closed"]
    /\ closingH' = 0
    /\ IF todo = 0
       THEN /\ size' = 0
            /\ pc' = [pc EXCEPT ![t] = "idle"]
            /\ last' = Event("closeHandle", t, "return", closingH)
       ELSE /\ pc' = [pc EXCEPT ![t] = "closing"]
            /\ last' = Event("closeHandle", t, "suspend", closingH)
            /\ UNCHANGED size
    /\ UNCHANGED <<closed, queue, getters, held, gready, done, todo,
                   waitOrder, tx>>

\* the task suspended in a direct acquire_connection is cancelled
\* (Task.cancel): CancelledError is raised at the await it is suspended in.
\* In create_connection it leaves through lines 124-126 with _size raised.
\* In _queue.get() the getter leaves the list; if its future was already
\* set and the queue is not empty, get() passes the wake-up on
\* (_wakeup_next) and the item stays in the queue.
Cancel(t) ==
    /\ Free(t)
    /\ pc[t] \in {"creating", "waiting", "woken"}
    /\ pc' = [u \in Tasks |->
                IF u = t THEN "idle"
                ELSE IF pc[t] = "woken" /\ ~empty(queue)
                        /\ TaskW(u) \in Woken(getters)
                THEN "woken" ELSE pc[u]]
    /\ getters' = IF pc[t] = "waiting"
                  THEN SelectSeq(getters, LAMBDA w : w # TaskW(t))
                  ELSE IF pc[t] = "woken" /\ ~empty(queue)
                  THEN WakeupNext(getters)
                  ELSE getters
    /\ gready' = IF pc[t] = "woken" /\ ~empty(queue)
                     /\ CloseW \in Woken(getters)
                  THEN gready + 1 ELSE gready
    /\ waitOrder' = SelectSeq(waitOrder, LAMBDA u : u # t)
    /\ last' = Event("cancel", t, pc[t], 0)
    /\ UNCHANGED <<size, closed, queue, held, hstate, done, todo, closingH, tx>>

\* one step of the pool, the direct calls made by the tasks of T
PoolNext(T) ==
    \/ \E t \in T : AcquireCall(t)
    \/ \E t \in T : CreateDone(t)
    \/ \E t \in T : \E locked \in BOOLEAN : CreateFail(t, locked)
    \/ \E t \in T : AcquireResume(t)
    \/ \E t \in T : \E h \in Handles : ReturnConnection(t, h)
    \/ \E t \in T : CloseCall(t)
    \/ GetterRun
    \/ \E t \in T : CloseNext(t)
    \/ \E t \in T : CloseHandleDone(t)

Next == PoolNext(Tasks)

Spec == Init /\ [][Next]_vars

\* the pool with tasks that may be cancelled inside acquire_connection
CancelNext ==
    \/ Next
    \/ \E t \in Tasks : Cancel(t)

CancelSpec == Init /\ [][CancelNext]_vars

\* fair scheduling: the event loop runs every task that is ready (a woken
\* waiter, close()'s get() tasks, close() itself), every awaited creation or
\* handle close() comes to an end, and a task that holds a handle and is
\* not suspended releases it
FairSpec ==
    /\ Spec
    /\ \A t \in Tasks :
          /\ WF_vars(CreateDone(t) \/ \E locked \in BOOLEAN : CreateFail(t, locked))
          /\ WF_vars(AcquireResume(t))
          /\ WF_vars(\E h \in Handles : ReturnConnection(t, h))
          /\ WF_vars(CloseNext(t))
          /\ WF_vars(CloseHandleDone(t))
    /\ WF_vars(GetterRun)

\* ------------------------------------------- Transaction.__aenter__ (2)
Min(a, b) == IF a <= b THEN a ELSE b

\* time() - start_time, d units after it was x.el.  time() is called only
\* when a timeout is configured, and beyond the largest timeout the value
\* makes no difference.
Elapsed(x, d) == IF x.to = NoTimeout THEN x.el ELSE Min(x.el + d, MaxTimeout)

\* if self._release_connection: self._db.release_connection(self._connection)
ReleaseOnTimeoutNever(t) == FALSE
ReleaseOnTimeout(t) == tx[t].rel

\* __init__: self._release_connection = False
ReleaseConnectionSetAtInit == TRUE
ReleaseConnectionAtInit == FALSE

\* Transaction(db, connection, type, timeout) is entered: start_time is
\* taken; with no connection supplied (h = 0) one is acquired from the pool,
\* else BEGIN is sent on the caller's handle.
TxEnter(t, h, to) ==
    /\ Free(t)
    /\ pc[t] = "idle"
    /\ IF h = 0
       THEN /\ Acquire(t)
            /\ IF AcquireRes = "PoolClosed"
               THEN /\ tx' = tx
                    /\ last' = [op |-> "txn", task |-> t, res |-> "PoolClosed",
                                h |-> 0, own |-> FALSE, rel |-> 0, fin |-> "none"]
               ELSE /\ last' = Event("acquire", t, AcquireRes,
                                IF AcquireRes = "handle" THEN Head(queue) ELSE 0)
                    /\ tx' = [tx EXCEPT ![t] =
                                IF AcquireRes = "handle"
                                THEN [TxNone EXCEPT !.st = "begin", !.to = to,
                                        !.conn = Head(queue), !.rel = TRUE]
                                ELSE [TxNone EXCEPT !.st = "acquiring", !.to = to]]
       ELSE /\ h \in held[t]
            /\ tx' = [tx EXCEPT ![t] =
                        [TxNone EXCEPT !.st = "begin", !.to = to, !.conn = h,
                                       !.rel = ReleaseConnectionAtInit]]
            /\ last' = Event("enter", t, "suspend", h)
            /\ UNCHANGED <<size, closed, queue, getters, pc, held, hstate,
                           gready, done, todo, closingH, waitOrder>>

\* BEGIN succeeded: __aenter__ returns the connection, the body runs.
\* start_time dies with __aenter__ and _timeout is not read again.
TxBeginOk(t) ==
    /\ tx[t].st = "begin"
    /\ tx' = [tx EXCEPT ![t] = [@ EXCEPT !.st = "active", !.to = NoTimeout,
                                         !.el = 0]]
    /\ last' = Event("begin", t, "active", tx[t].conn)
    /\ UNCHANGED <<size, closed, queue, getters, pc, held, hstate, gready,
                   done, todo, closingH, waitOrder>>

\* BEGIN raised something other than OperationalError('database is
\* locked'): re-raised at once; __aexit__ does not run
TxBeginError(t) ==
    /\ tx[t].st = "begin"
    /\ TxLeave(t, "error", "none", 0)
    /\ hstate' = IF tx[t].rel THEN [hstate EXCEPT ![tx[t].conn] = "leaked"]
                 ELSE hstate
    /\ held' = IF tx[t].rel THEN [held EXCEPT ![t] = @ \ {tx[t].conn}] ELSE held
    /\ UNCHANGED <<size, closed, queue, getters, pc, gready, done, todo,
                   closingH, waitOrder>>

\* BEGIN raised OperationalError('database is locked'), d units of time
\* after the last look at the clock
TxBeginLocked(t, d) ==
    /\ tx[t].st = "begin"
    /\ LET x == [tx[t] EXCEPT !.el = Elapsed(tx[t], d)]
       IN IF ~TimedOut(x)
          THEN \* await async_sleep(.5)
               /\ tx' = [tx EXCEPT ![t] = [x EXCEPT !.st = "sleep"]]
               /\ last' = Event("begin", t, "locked", x.conn)
               /\ UNCHANGED <<size, queue, getters, pc, held, gready>>
          ELSE IF ReleaseOnTimeout(t)
          THEN /\ Return(t, x.conn)
               /\ TxLeave(t, IF full(queue) THEN "QueueFull" ELSE "Timeout",
                          "none", IF full(queue) THEN 0 ELSE 1)
          ELSE /\ TxLeave(t, "Timeout", "none", 0)
               /\ UNCHANGED <<size, queue, getters, pc, held, gready>>
    /\ UNCHANGED <<closed, hstate, done, todo, closingH, waitOrder>>

\* async_sleep(.5) is over: the loop runs again, acquiring first if no
\* connection is bound yet
TxSleepDone(t) ==
    /\ tx[t].st = "sleep"
    /\ LET x == [tx[t] EXCEPT !.el = Elapsed(tx[t], 1)]
       IN IF x.conn # 0
          THEN /\ tx' = [tx EXCEPT ![t] = [x EXCEPT !.st = "begin"]]
               /\ last' = Event("retry", t, "suspend", x.conn)
               /\ UNCHANGED <<size, closed, queue, getters, pc, held, hstate,
                              gready, done, todo, closingH, waitOrder>>
          ELSE /\ Acquire(t)
               /\ IF AcquireRes = "PoolClosed"
                  THEN TxLeave(t, "PoolClosed", "none", 0)
                  ELSE /\ last' = Event("acquire", t, AcquireRes,
                                   IF AcquireRes = "handle" THEN Head(queue) ELSE 0)
                       /\ tx' = [tx EXCEPT ![t] =
                                   IF AcquireRes = "handle"
                                   THEN [x EXCEPT !.st = "begin",
                                           !.conn = Head(queue), !.rel = TRUE]
                                   ELSE [x EXCEPT !.st = "acquiring"]]

\* -------------------------------------------------- Transaction.__aexit__
\* if exc is None: commit() else: rollback()
CommitAlways(err) == "commit"
CommitOrRollback(err) == IF err THEN "rollback" ELSE "commit"

\* the body ended (err: with an exception); intx is what
\* self._connection._connection.in_transaction reports.  __aexit__ runs up
\* to the await of commit/rollback, or to its end.
TxBodyEnd(t, err, intx) ==
    /\ tx[t].st = "active"
    /\ IF intx
       THEN /\ tx' = [tx EXCEPT ![t] =
                        [@ EXCEPT !.st = CommitOrRollback(err),
                                  !.exc = err]]
            /\ last' = Event("exit", t, "suspend", tx[t].conn)
            /\ UNCHANGED <<size, queue, getters, pc, held, gready>>
       ELSE IF tx[t].rel
       THEN /\ Return(t, tx[t].conn)
            /\ TxLeave(t, IF full(queue) THEN "QueueFull"
                          ELSE IF err THEN "bodyError" ELSE "ok",
                       "none", IF full(queue) THEN 0 ELSE 1)
       ELSE /\ TxLeave(t, IF err THEN "bodyError" ELSE "ok", "none", 0)
            /\ UNCHANGED <<size, queue, getters, pc, held, gready>>
    /\ UNCHANGED <<closed, hstate, done, todo, closingH, waitOrder>>

\* commit()/rollback() returned: the handle goes back if the checkout is owned
TxFinishOk(t) ==
    /\ tx[t].st \in {"commit", "rollback"}
    /\ IF tx[t].rel
       THEN /\ Return(t, tx[t].conn)
            /\ TxLeave(t, IF full(queue) THEN "QueueFull"
                          ELSE IF tx[t].exc THEN "bodyError" ELSE "ok",
                       tx[t].st, IF full(queue) THEN 0 ELSE 1)
       ELSE /\ TxLeave(t, IF tx[t].exc THEN "bodyError" ELSE "ok", tx[t].st, 0)
            /\ UNCHANGED <<size, queue, getters, pc, held, gready>>
    /\ UNCHANGED <<closed, hstate, done, todo, closingH, waitOrder>>

\* commit()/rollback() raised: the exception leaves __aexit__ before the
\* release
TxFinishError(t) ==
    /\ tx[t].st \in {"commit", "rollback"}
    /\ TxLeave(t, "exitError", tx[t].st, 0)
    /\ hstate' = IF tx[t].rel THEN [hstate EXCEPT ![tx[t].conn] = "leaked"]
                 ELSE hstate
    /\ held' = IF tx[t].rel THEN [held EXCEPT ![t] = @ \ {tx[t].conn}] ELSE held
    /\ UNCHANGED <<size, closed, queue, getters, pc, gready, done, todo,
                   closingH, waitOrder>>

\* ------------------------------------------------------ ConnectionWaiter
\* async with pool.connect(): __aenter__ awaits the pool's
\* acquire_connection and hands self.connection to the body
WaiterEnter(t) ==
    /\ Free(t)
    /\ pc[t] = "idle"
    /\ Acquire(t)
    /\ IF AcquireRes = "PoolClosed"
       THEN /\ tx' = tx
            /\ last' = [op |-> "scope", task |-> t, res |-> "PoolClosed",
                        h |-> 0, own |-> FALSE, rel |-> 0, fin |-> "none"]
       ELSE /\ last' = Event("acquire", t, AcquireRes,
                             IF AcquireRes = "handle" THEN Head(queue) ELSE 0)
            /\ tx' = [tx EXCEPT ![t] =
                        IF AcquireRes = "handle"
                        THEN [@ EXCEPT !.st = "scope", !.conn = Head(queue),
                                       !.rel = TRUE]
                        ELSE [@ EXCEPT !.st = "connecting"]]

WaiterExitNoReturn(t, err) ==
    /\ tx[t].st = "scope"
    /\ WaiterLeave(t, IF err THEN "bodyError" ELSE "ok", 0)
    /\ UNCHANGED <<size, closed, queue, getters, pc, held, hstate, gready,
                   done, todo, closingH, waitOrder>>

\* the body ended (err: with an exception): __aexit__ returns
\* self.connection to the pool
WaiterExit(t, err) ==
    /\ tx[t].st = "scope"
    /\ Return(t, tx[t].conn)
    /\ WaiterLeave(t, IF full(queue) THEN "QueueFull"
                      ELSE IF err THEN "bodyError" ELSE "ok",
                   IF full(queue) THEN 0 ELSE 1)

\* the task that runs transactions, and the tasks that act beside it
TxTasks == {1}
TxUsers == 1..(1 + NumUsers)

TxNext ==
    \/ PoolNext(TxUsers)
    \/ \E t \in TxTasks : \E h \in Handles \cup {0} : \E to \in Timeouts :
            TxEnter(t, h, to)
    \/ \E t \in TxTasks : TxBeginOk(t)
    \/ \E t \in TxTasks : TxBeginError(t)
    \/ \E t \in TxTasks : \E d \in 0..1 : TxBeginLocked(t, d)
    \/ \E t \in TxTasks : TxSleepDone(t)
    \/ \E t \in TxTasks : \E err \in BOOLEAN : \E intx \in BOOLEAN :
            TxBodyEnd(t, err, intx)
    \/ \E t \in TxTasks : TxFinishOk(t)
    \/ \E t \in TxTasks : TxFinishError(t)

TxSpec == Init /\ [][TxNext]_vars

\* the runs in which another party holds the database lock throughout:
\* every BEGIN of the transaction fails with 'database is locked'
TxLockedNext ==
    \/ PoolNext(TxUsers)
    \/ \E t \in TxTasks : \E h \in Handles \cup {0} : \E to \in Timeouts :
            TxEnter(t, h, to)
    \/ \E t \in TxTasks : \E d \in 0..1 : TxBeginLocked(t, d)
    \/ \E t \in TxTasks : TxSleepDone(t)

\* the event loop delivers every answer to a BEGIN that was sent and fires
\* every timer that was set
TxLockedSpec ==
    /\ Init
    /\ [][TxLockedNext]_vars
    /\ WF_vars(\E t \in TxTasks : \E d \in 0..1 : TxBeginLocked(t, d))
    /\ WF_vars(\E t \in TxTasks : TxSleepDone(t))

\* one task that checks out through ConnectionWaiter scopes beside the tasks
\* that call the pool directly
WaiterNext ==
    \/ PoolNext(TxUsers)
    \/ \E t \in TxTasks : WaiterEnter(t)
    \/ \E t \in TxTasks : \E err \in BOOLEAN : WaiterExit(t, err)

WaiterSpec == Init /\ [][WaiterNext]_vars

TypeOK ==
    /\ size \in 0..MaxSize
    /\ closed \in BOOLEAN
    /\ pc \in [Tasks -> {"idle", "creating", "waiting", "woken", "closing",
                         "closingHandle"}]
    /\ \A t \in Tasks : held[t] \subseteq Handles
    /\ \A h \in Handles : hstate[h] \in {"absent", "open", "closed", "leaked"}

\* ------------------------------------------------------------ the claims
\* the steps in which acquire_connection hands a handle to its caller
HandedOut(e) == e.res = "handle" /\ e.op \in {"acquire", "create", "resume"}
\* the steps in which a call of close() returns
CloseReturned(e) == e.res = "return" /\ e.op \in {"close", "closeHandle"}
\* a task is inside a draining close()
Draining == \E t \in Tasks : pc[t] \in {"closing", "closingHandle"}

\* the handles in a sequence
Range(q) == {q[i] : i \in 1..Len(q)}
\* the tasks that have handle h checked out
Holders(h) == {t \in Tasks : h \in held[t]}

\* the handles that stand behind _size: idle, checked out, taken or closed
\* by close(), or being created by a task inside create_connection
Backed ==
    Cardinality({h \in Handles : hstate[h] \in {"open", "closed"}})
      + Cardinality({t \in Tasks : pc[t] = "creating"})

\* how often handle h occurs in a sequence
Count(q, h) == Cardinality({i \in 1..Len(q) : q[i] = h})
\* the number of places handle h is in: checked out by a task, on the idle
\* queue, taken from the queue by close(), being closed by it, or closed
Places(h) ==
    Cardinality(Holders(h)) + Count(queue, h) + Count(done, h)
      + (IF closingH = h THEN 1 ELSE 0)
      + (IF hstate[h] = "closed" THEN 1 ELSE 0)

\* C1: in every reachable state 0 <= available <= size <= maxSize, under
\* any interleaving of acquire, release (once per checkout) and close.
C1_SizeInvariant ==
    /\ 0 <= available
    /\ available <= size
    /\ size <= maxsize

\* C1 witness: the pool is at capacity with its handle idle while a close()
\* is draining (acquire, release and close have all acted).
C1_Witness ==
    /\ closed
    /\ Draining
    /\ size = maxsize
    /\ available = size

\* C2 (as claimed): once closed is true no handle is created and no
\* acquire() returns a handle to a caller.
C2_NoHandoutOnceClosed == closed => ~HandedOut(last)

\* C3: an acquire() invoked once close() has been invoked fails with
\* PoolClosed, without suspending and without changing size, the idle queue
\* or closed.
C3_AcquireAfterClose ==
    [][(closed /\ last'.op = "acquire")
         => /\ last'.res = "PoolClosed"
            /\ UNCHANGED <<size, queue, closed, getters, pc, held, hstate>>]_vars

\* C3 witness: an acquire() was refused while close() was still draining.
C3_Witness ==
    /\ last.op = "acquire"
    /\ last.res = "PoolClosed"
    /\ Draining
    /\ size > 0

\* C4 (as claimed): whenever a call of close() returns, size = 0 and
\* available = 0 and no handle is still open.
C4_CloseReturnsDrained ==
    CloseReturned(last) =>
        /\ size = 0
        /\ available = 0
        /\ \A h \in Handles : hstate[h] # "open"

\* C5: a close() called when the pool is already closed (in particular
\* after an earlier close() completed) changes no pool state, closes no
\* handle and does not suspend; closed never goes back to false.
C5_CloseIdempotent ==
    [][/\ (closed /\ last'.op = "close")
            => /\ last'.res = "return"
               /\ UNCHANGED <<size, queue, closed, getters, pc, held, hstate,
                              gready, done, todo, closingH>>
       /\ closed => closed']_vars

\* C5 witness: a close() returned at once after an earlier close() had
\* drained the pool and closed its handle.
C5_Witness ==
    /\ last.op = "close"
    /\ last.res = "return"
    /\ ~Draining
    /\ size = 0
    /\ \E h \in Handles : hstate[h] = "closed"

C7_WokenWaiterReturns == last.op = "resume" => last.res = "handle"

\* C8 (as claimed): a task takes a handle from the idle queue only if no
\* other task began to wait for one before it.
C8_WaitersServedInOrder ==
    [][(last'.res = "handle" /\ last'.op \in {"acquire", "resume"})
         => (waitOrder = <<>> \/ Head(waitOrder) = last'.task)]_vars

\* C9 (as claimed): a transaction that owns its checkout has returned the
\* handle to the pool exactly once when control leaves it.
C9_OwnedHandleReturned ==
    (last.op = "txn" /\ last.own) => last.rel = 1

\* C10: a transaction that owns its checkout and ends with Timeout has put
\* its handle back into the idle queue exactly once in that step, size is
\* unchanged, the task no longer holds the handle, and neither COMMIT nor
\* ROLLBACK was issued.
C10_TimeoutLeavesPoolConsistent ==
    [][(last'.op = "txn" /\ last'.res = "Timeout" /\ last'.own) =>
            /\ queue' = Append(queue, last'.h)
            /\ Len(SelectSeq(queue', LAMBDA x : x = last'.h)) = 1
            /\ last'.h \notin held'[last'.task]
            /\ hstate'[last'.h] = "open"
            /\ size' = size
            /\ last'.rel = 1
            /\ last'.fin = "none"
            /\ tx'[last'.task].st = "none"]_vars

\* C10 witness: a transaction timed out after a retry and its handle is idle.
C10_Witness ==
    /\ last.op = "txn"
    /\ last.res = "Timeout"
    /\ last.own
    /\ queue = <<last.h>>
    /\ size = 1
\* C11: while the lock is held throughout, a transaction with a timeout
\* whose BEGIN was sent ends with Timeout; it backs off only while the
\* elapsed time is below the timeout and the elapsed time grows with every
\* retry, so the BEGIN attempts are bounded; a transaction without a timeout
\* never ends with Timeout and backs off after every failed BEGIN.
C11_TimeoutBoundsRetries ==
    /\ \A t \in TxTasks :
          (tx[t].st = "begin" /\ tx[t].to # NoTimeout)
            ~> (last.op = "txn" /\ last.task = t /\ last.res = "Timeout")
    /\ [][\A t \in TxTasks :
            /\ (tx[t].st = "begin" /\ tx'[t].st = "sleep"
                   /\ tx[t].to # NoTimeout)
                 => tx'[t].el < tx'[t].to
            /\ (tx[t].st = "sleep" /\ tx'[t].st = "begin"
                   /\ tx[t].to # NoTimeout)
                 => (tx'[t].el > tx[t].el /\ tx'[t].el <= tx[t].to)
            /\ (tx[t].st # "none" /\ last'.op = "txn" /\ last'.task = t
                   /\ last'.res = "Timeout")
                 => (tx[t].to # NoTimeout /\ tx[t].el + 1 >= tx[t].to)
            /\ (tx[t].st = "begin" /\ tx[t].to = NoTimeout /\ tx'[t] # tx[t])
                 => (tx'[t].st = "sleep" /\ tx'[t].conn = tx[t].conn)]_vars

\* C11 witness: after at least one backoff the BEGIN is sent again at an
\* elapsed time that has reached the timeout, so its failure ends the entry.
C11_Witness ==
    \E t \in TxTasks :
        /\ tx[t].st = "begin"
        /\ tx[t].to # NoTimeout
        /\ tx[t].el >= 1
        /\ tx[t].el >= tx[t].to

\* C12: on exit with an open transaction exactly one of COMMIT and ROLLBACK
\* is issued, COMMIT iff the body ended without error and ROLLBACK iff it
\* ended with one; with no open transaction neither is issued; a transaction
\* goes from active to committing or rolling back and from there only out.
C12_CommitXorRollback ==
    [][\A t \in TxTasks :
        /\ (tx[t].st = "active" /\ tx'[t].st # "active")
             => \/ tx'[t].st = "commit" /\ ~tx'[t].exc
                \/ tx'[t].st = "rollback" /\ tx'[t].exc
                \/ tx'[t].st = "none" /\ last'.op = "txn" /\ last'.fin = "none"
                     /\ last'.res \in {"ok", "bodyError"}
        /\ (tx'[t].st \in {"commit", "rollback"} /\ tx'[t].st # tx[t].st)
             => tx[t].st = "active"
        /\ (tx[t].st \in {"commit", "rollback"} /\ tx'[t] # tx[t])
             => /\ tx'[t].st = "none"
                /\ last'.op = "txn"
                /\ last'.fin = tx[t].st
                /\ last'.res = "ok" => (last'.fin = "commit" /\ ~tx[t].exc)
                /\ last'.res = "bodyError"
                     => (last'.fin = "rollback" /\ tx[t].exc)
        /\ (tx[t].st \notin {"commit", "rollback"} /\ last'.op = "txn"
               /\ last'.task = t)
             => last'.fin = "none"]_vars

\* C12 witness: a body that ended with an error inside an open transaction
\* was rolled back and the error reached the caller.
C12_Witness ==
    /\ last.op = "txn"
    /\ last.res = "bodyError"
    /\ last.fin = "rollback"

\* C13 (as claimed): during entry a backoff follows only a BEGIN that failed
\* with the lock error; after the backoff BEGIN is sent again on the same
\* handle and the pool's acquire is not called again; any other failure ends
\* the entry at once; the entry ends as active, Timeout or a non-lock error.
C13_OnlyBeginRetried ==
    [][\A t \in TxTasks :
        /\ (tx'[t].st = "sleep" /\ tx[t].st # "sleep") => tx[t].st = "begin"
        /\ (tx[t].st = "sleep" /\ tx'[t] # tx[t])
             => /\ tx'[t].st = "begin"
                /\ tx'[t].conn = tx[t].conn
                /\ tx[t].conn # 0
                /\ last'.op # "acquire"
                /\ UNCHANGED <<size, queue, getters, pc>>
        /\ (tx[t].st = "begin" /\ tx'[t] # tx[t])
             => \/ tx'[t].st = "active"
                \/ tx'[t].st = "sleep" /\ last'.res = "locked"
                \/ tx'[t].st = "none" /\ last'.res \in {"Timeout", "error"}
        /\ (tx[t].st = "acquiring" /\ tx'[t].st = "none")
             => last'.res \in {"PoolClosed", "error"}]_vars

C15_CloseTerminates ==
    (\A t \in Tasks : []<>(held[t] = {}))
        => \A t \in Tasks : (pc[t] = "closing") ~> (pc[t] = "idle")

\* C16: close() closes a handle only after taking it from the idle queue,
\* never while a task has it checked out and never a second time; when the
\* draining close() returns, every handle the pool created is closed and
\* their number is the size close() found.
C16_ClosedOnceAfterReturn ==
    [][/\ \A h \in Handles :
            /\ (h = closingH' \/ h \in Range(done'))
                 => (Holders(h)' = {} /\ h \notin Range(queue')
                       /\ hstate'[h] = "open")
            /\ hstate'[h] = "closed"
                 => (Holders(h)' = {} /\ h \notin Range(queue')
                       /\ h \notin Range(done') /\ h # closingH')
            /\ hstate[h] = "closed" => hstate'[h] = "closed"
       /\ Len(done') > Len(done)
            => (~empty(queue) /\ done' = Append(done, Head(queue))
                  /\ queue' = Tail(queue))
       /\ (closingH' # 0 /\ closingH = 0)
            => (Len(done) > 0 /\ closingH' = Head(done))
       /\ (last'.op = "closeHandle" /\ last'.res = "return")
            => /\ \A h \in Handles : hstate'[h] \in {"absent", "closed"}
               /\ Cardinality({h \in Handles : hstate'[h] = "closed"}) = size
               /\ size > 0]_vars

\* C16 witness: the draining close() returned after closing the handle it
\* took from the idle queue.
C16_Witness ==
    /\ last.op = "closeHandle"
    /\ last.res = "return"
    /\ last.h \in Handles
    /\ hstate[last.h] = "closed"
    /\ Holders(last.h) = {}

\* C17: a transaction on a handle its caller supplied never calls the
\* pool's acquire and never returns the handle: its entry, its retries and
\* every way it ends (success, body error, BEGIN timeout, other failure)
\* leave size, the idle queue and the holders as they are; the transaction
\* owns the checkout exactly when it acquired the handle itself.
C17_SuppliedHandleUntouched ==
    [][\A t \in TxTasks :
        /\ (last'.op = "enter" /\ last'.task = t)
             => /\ ~tx'[t].rel
                /\ tx'[t].conn \in held[t]
                /\ UNCHANGED <<size, queue, getters, held, pc, hstate>>
        /\ (tx[t].conn # 0 /\ ~tx[t].rel /\ tx'[t] # tx[t])
             => /\ UNCHANGED <<size, queue, getters, held, pc, hstate>>
                /\ ~tx'[t].rel
                /\ tx'[t].st # "acquiring"
                /\ tx'[t].st # "none" => tx'[t].conn = tx[t].conn
                /\ tx'[t].st = "none"
                     => (last'.op = "txn" /\ ~last'.own /\ last'.rel = 0
                           /\ last'.h \in held'[t])
        /\ (tx'[t].rel /\ ~tx[t].rel)
             => (HandedOut(last') /\ last'.task = t /\ tx'[t].conn = last'.h)
        /\ (HandedOut(last') /\ last'.task = t /\ tx'[t].st # "none")
             => tx'[t].rel]_vars

\* C17 witness: a transaction on a supplied handle committed and ended, and
\* its caller still holds the handle.
C17_Witness ==
    /\ last.op = "txn"
    /\ last.res = "ok"
    /\ last.fin = "commit"
    /\ ~last.own
    /\ last.h \in held[last.task]

\* C18 (as claimed): cancelling a task inside acquire(), while it waits or
\* while its handle is being created, leaves the bookkeeping sound: the
\* cancelled task is out of the pool and took no handle, an idle handle it
\* was woken for stays idle and the wake-up goes to the next waiter, and
\* size counts no handle that is neither idle, checked out nor closed.
C18_CancelKeepsBookkeeping ==
    [][last'.op = "cancel"
        => /\ held' = held
           /\ queue' = queue
           /\ pc'[last'.task] = "idle"
           /\ TaskW(last'.task) \notin Range(getters')
           /\ (last'.res = "woken" /\ ~empty(queue) /\ Len(getters) > 0)
                => getters' = Tail(getters)
           /\ size' - Backed' <= size - Backed]_vars

\* C19: with every holder releasing once per checkout, each handle the pool
\* created is in exactly one place: held by exactly one task (a caller, or
\* close() between taking it from the idle queue and closing it), on the
\* idle queue once, or closed; a handle an acquire() just returned is held
\* by that caller alone.
C19_ExclusiveOwnership ==
    /\ \A h \in Handles :
          Places(h) = IF hstate[h] = "absent" THEN 0 ELSE 1
    /\ HandedOut(last) => Holders(last.h) = {last.task}

\* C19 witness: a handle that one task released was handed to a waiter,
\* which is now its only holder, and it is not idle.
C19_Witness ==
    /\ last.op = "resume"
    /\ last.res = "handle"
    /\ Holders(last.h) = {last.task}
    /\ Count(queue, last.h) = 0

\* C20 (as claimed): when the close() that drained the pool returns, no
\* task is still suspended inside acquire() waiting for an idle handle.
C20_NoWaiterStranded ==
    (last.op = "closeHandle" /\ last.res = "return")
        => \A t \in Tasks : pc[t] # "waiting"

=========================================================================
